---- MODULE Spec2Model ----
(***************************************************************************)
(* The asynchronous embedding pipeline of natural_gallery_backend:         *)
(* the embedding processor (services/embeddingProcessor.js), the image     *)
(* controller's upload, edit and delete handlers, and the Qdrant and       *)
(* AI-model gateways they consult.                                         *)
(*                                                                         *)
(* Every `await` of the JavaScript source is a point where other           *)
(* callbacks may run, so each action below is one run-to-completion        *)
(* segment between two awaits.  A call to MongoDB, Qdrant or the model     *)
(* either succeeds or throws; the outcome is chosen with \E.               *)
(***************************************************************************)
EXTENDS Integers, Sequences, FiniteSets, TLC

\* ------------------------------------------------------------- bounds
MaxImages == 2          \* uploads ever made (each takes a fresh _id / qdrantId)
FullImages == 1         \* uploads ever made in the full system (Spec)
MaxInvocations == 2     \* calls of processPendingEmbeddings in flight at once
MaxStatDocs == 40       \* documents in the collection getEmbeddingStats counts
MaxRanked == 4          \* documents in the collection a ranked search is asked of
MaxInits == 1           \* reconnect calls of initQdrant awaiting Qdrant at once
MaxBacklog == 11        \* documents waiting at once, more than one batch of BATCH_LIMIT

\* ------------------------------------------------- program constants
MAX_EMBEDDING_ATTEMPTS == 5
RETRY_DELAY == 60000
BATCH_LIMIT == 10
MAX_INIT_ATTEMPTS == 3

\* Timestamps are kept relative to the current instant: Date.now() is 0 and
\* a Date taken d ms ago is -d.  The clock advancing by d shifts every
\* stored Date by -d (see Tick).
Now == 0

ImageIds == 1..MaxImages
Invocations == 1..MaxInvocations
Users == {"u1", "u2"}
Titles == {"a", "b"}

Null == "null"
NullId == 0                 \* payload imageId: null
NoDate == <<>>              \* lastEmbeddingAttempt not set ($exists: false)

EmbedError == "embedding failed"
QdrantError == "qdrant request failed"
MongoError == "mongo request failed"

VARIABLES
  images,                \* the Image collection: _id -> document
  nextId,                \* the next fresh _id / qdrantId (uuidv4, ObjectId)
  points,                \* the Qdrant collection: point id -> payload
  isProcessing,          \* embeddingProcessor.js: let isProcessing
  processingInterval,    \* embeddingProcessor.js: let processingInterval (set?)
  activeIntervals,       \* the setInterval timers of the processor not yet cleared
  inv,                   \* the calls of processPendingEmbeddings
  isAIModelAvailable,    \* aiService.js: model loaded and flagged available
  modelInitializationAttempts,
  qdrantClient,          \* qdrant.js: qdrantClient !== null
  isQdrantAvailable,     \* qdrant.js: let isQdrantAvailable
  reconnectPending,      \* qdrant.js: the reconnect timeout is armed
  qdrantInits,           \* qdrant.js: calls of initQdrant made by the timeout, awaiting
  serverPc,              \* server.js: position of startServer
  req                    \* the HTTP request being handled

vars == <<images, nextId, points, isProcessing, processingInterval,
          activeIntervals,
          inv, isAIModelAvailable,
          modelInitializationAttempts, qdrantClient,
          isQdrantAvailable, reconnectPending, qdrantInits, serverPc, req>>

storeVars == <<images, nextId>>
modelVars == <<isAIModelAvailable, modelInitializationAttempts>>
qdrantVars == <<qdrantClient, isQdrantAvailable, reconnectPending, qdrantInits>>
timerVars == <<processingInterval, activeIntervals>>
processorVars == <<isProcessing, timerVars, inv>>

\* ------------------------------------------------------- Image model
\* images and points are functions whose DOMAIN is the set of documents
\* (points) that exist.

\* A new document: the schema defaults of models/Image.js.
NewImage(user, title) ==
  [ user |-> user, title |-> title,
    isEmbedded |-> FALSE, embeddingStatus |-> "pending",
    embeddingError |-> Null, embeddingAttempts |-> 0,
    lastEmbeddingAttempt |-> NoDate ]

Exists(id) == id \in DOMAIN images

\* Image.findByIdAndUpdate(id, update): no document, no change, no error.
\* `updated` is the document after the update, read only if it exists.
FindByIdAndUpdate(id, updated) ==
  IF Exists(id) THEN [images EXCEPT ![id] = updated] ELSE images

Without(f, x) == [y \in DOMAIN f \ {x} |-> f[y]]

\* ------------------------------------------------------------- clock
Oldest == Now - RETRY_DELAY - 1     \* every older Date compares the same
TimePoints == {Now, Now - (RETRY_DELAY - 1), Now - RETRY_DELAY, Oldest}
TickSteps == {1, RETRY_DELAY - 1}

Shift(t, d) ==
  IF t = NoDate THEN NoDate
  ELSE IF t[1] - d < Oldest THEN <<Oldest>> ELSE <<t[1] - d>>

\* The clock advances by d ms.  Only instants at which every stored Date is
\* one of TimePoints are sampled.
Tick(d) ==
  /\ \E id \in DOMAIN images : images[id].lastEmbeddingAttempt \notin {NoDate, <<Oldest>>}
  /\ \A id \in DOMAIN images :
       Shift(images[id].lastEmbeddingAttempt, d) \in {NoDate} \cup {<<t>> : t \in TimePoints}
  /\ images' = [id \in DOMAIN images |->
                  [images[id] EXCEPT !.lastEmbeddingAttempt = Shift(@, d)]]
  /\ UNCHANGED <<nextId, points, processorVars, modelVars, qdrantVars, serverPc, req>>

\* ---------------------------------------------------- Qdrant gateway
\* config/qdrant.js.  A request to the Qdrant service succeeds (ok) or throws.

\* checkQdrantHealth(): the flag it leaves.
HealthFlag(ok) ==
  IF ~qdrantClient THEN isQdrantAvailable ELSE ok

\* Faulty variant: a lost connection schedules nothing.
HealthReconnect_NoSchedule(ok) == reconnectPending

\* checkQdrantHealth(): scheduleReconnect() runs when a connection is lost.
HealthReconnect(ok) ==
  IF qdrantClient /\ ~ok /\ isQdrantAvailable THEN TRUE ELSE reconnectPending

\* initQdrant(): the client is created, then getCollections() decides.
InitQdrantEffect(ok) ==
  /\ qdrantClient' = TRUE
  /\ isQdrantAvailable' = ok
  /\ reconnectPending' = IF ok THEN reconnectPending ELSE TRUE

\* The reconnect timeout fires: initQdrant creates a client and awaits
\* getCollections().
ReconnectFire ==
  /\ reconnectPending
  /\ qdrantInits < MaxInits
  /\ reconnectPending' = FALSE
  /\ qdrantInits' = qdrantInits + 1
  /\ qdrantClient' = TRUE
  /\ UNCHANGED <<storeVars, points, processorVars, modelVars, isQdrantAvailable,
                 serverPc, req>>

\* The call of initQdrant made by the timeout settles.
ReconnectInit(ok) ==
  /\ qdrantInits > 0
  /\ qdrantInits' = qdrantInits - 1
  /\ InitQdrantEffect(ok)
  /\ UNCHANGED <<storeVars, points, processorVars, modelVars, serverPc, req>>

\* qdrant.upsert of one point.
UpsertPoint(qid, imageId, user) ==
  IF qid \in DOMAIN points
  THEN [points EXCEPT ![qid] = [imageId |-> imageId, userId |-> user]]
  ELSE points @@ (qid :> [imageId |-> imageId, userId |-> user])

\* ---------------------------------------------------- AI model gateway
\* services/aiService.js
IsAIModelReady == isAIModelAvailable

\* initAIModel(): one attempt; a failure re-arms the retry timer while
\* attempts remain.
InitAIModelEffect(ok) ==
  /\ modelInitializationAttempts' = modelInitializationAttempts + 1
  /\ isAIModelAvailable' = ok

\* setTimeout(() => initAIModel(), 10000) is armed from a failed attempt
\* that was not the last one until it fires.
ModelRetryPending ==
  /\ ~isAIModelAvailable
  /\ modelInitializationAttempts > 0
  /\ modelInitializationAttempts < MAX_INIT_ATTEMPTS

ModelRetryFire(ok) ==
  /\ serverPc # "initAIModel"
  /\ ModelRetryPending
  /\ InitAIModelEffect(ok)
  /\ UNCHANGED <<storeVars, points, processorVars, qdrantVars, serverPc, req>>

\* -------------------------------------------------- embedding processor
\* services/embeddingProcessor.js

IdleInv == [ pc |-> "idle", batch |-> <<>>, i |-> 0, embedded |-> "none",
             upserted |-> "none", error |-> Null ]

Running(p) == inv[p].pc \in {"find", "markProcessing", "embed", "upsert",
                             "markCompleted", "catch", "loop", "count"}
Skipped(p) == inv[p].pc \in {"skipRunning", "skipNotReady"}

\* The document the loop of call p is handling.
Cur(p) == inv[p].batch[inv[p].i]

\* Faulty variant: the attempts bound is inclusive ($lte).
Eligible_AttemptsLte(r) ==
  \/ r.embeddingStatus = "pending"
  \/ /\ r.embeddingStatus = "failed"
     /\ r.embeddingAttempts <= MAX_EMBEDDING_ATTEMPTS
     /\ \/ r.lastEmbeddingAttempt = NoDate
        \/ r.lastEmbeddingAttempt[1] < Now - RETRY_DELAY

\* Faulty variant: a failed document is never taken again.
Eligible_PendingOnly(r) == r.embeddingStatus = "pending"

\* Faulty variant: the retry boundary is inclusive ($lte).
Eligible_Inclusive(r) ==
  \/ r.embeddingStatus = "pending"
  \/ /\ r.embeddingStatus = "failed"
     /\ r.embeddingAttempts < MAX_EMBEDDING_ATTEMPTS
     /\ \/ r.lastEmbeddingAttempt = NoDate
        \/ r.lastEmbeddingAttempt[1] <= Now - RETRY_DELAY

\* Faulty variant: a document left in processing is taken again.
Eligible_RequeuesProcessing(r) ==
  \/ r.embeddingStatus \in {"pending", "processing"}
  \/ /\ r.embeddingStatus = "failed"
     /\ r.embeddingAttempts < MAX_EMBEDDING_ATTEMPTS
     /\ \/ r.lastEmbeddingAttempt = NoDate
        \/ r.lastEmbeddingAttempt[1] < Now - RETRY_DELAY

\* The query of Image.find: which documents need embedding.
Eligible(r) ==
  \/ r.embeddingStatus = "pending"
  \/ /\ r.embeddingStatus = "failed"
     /\ r.embeddingAttempts < MAX_EMBEDDING_ATTEMPTS
     /\ \/ r.lastEmbeddingAttempt = NoDate
        \/ r.lastEmbeddingAttempt[1] < Now - RETRY_DELAY

\* The documents found, as the loop holds them: _id, user and the attempts
\* read by the query.  Mongo returns them in natural (insertion) order.
Snapshot(id) == [ id |-> id, user |-> images[id].user,
                  embeddingAttempts |-> images[id].embeddingAttempts ]

RECURSIVE Scan(_)
Scan(n) ==
  IF n = 0 THEN <<>>
  ELSE IF Exists(n) /\ Eligible(images[n])
       THEN Append(Scan(n - 1), Snapshot(n))
       ELSE Scan(n - 1)

Limit(s, n) == IF Len(s) <= n THEN s ELSE SubSeq(s, 1, n)

\* Every document has an _id below nextId.
ImagesToProcess == Limit(Scan(nextId - 1), BATCH_LIMIT)

\* The three updates of processImageEmbedding.
ProcessingUpdate(r) ==
  [r EXCEPT !.embeddingStatus = "processing",
            !.lastEmbeddingAttempt = <<Now>>,
            !.embeddingAttempts = @ + 1]

\* Faulty variant: the flag is not set.
CompletedUpdate_NoFlag(r) ==
  [r EXCEPT !.embeddingStatus = "completed",
            !.embeddingError = Null]

\* Faulty variant: a completion starts the attempts count afresh.
CompletedUpdate_ResetAttempts(r) ==
  [r EXCEPT !.isEmbedded = TRUE,
            !.embeddingStatus = "completed",
            !.embeddingError = Null,
            !.embeddingAttempts = 0]

\* Faulty variant: the last error is kept.
CompletedUpdate_KeepError(r) ==
  [r EXCEPT !.isEmbedded = TRUE,
            !.embeddingStatus = "completed"]

CompletedUpdate(r) ==
  [r EXCEPT !.isEmbedded = TRUE,
            !.embeddingStatus = "completed",
            !.embeddingError = Null]

\* Faulty variant: the message is not stored.
FailedUpdate_DropMessage(r, message) ==
  [r EXCEPT !.embeddingStatus = "failed"]

FailedUpdate(r, message) ==
  [r EXCEPT !.embeddingStatus = "failed",
            !.embeddingError = message]

\* Faulty variant: no catch, the promise of the call rejects.
AfterOuterCatch_Rethrow == "rejected"

\* Where an exception that reaches the try of processPendingEmbeddings
\* leaves the call: the catch logs it and the call returns normally (the
\* call is over, "idle"); a call whose promise rejects is "rejected".
AfterOuterCatch == "idle"

\* Faulty variant: the flag is left as the pass set it.
Finally_Skipped == isProcessing

\* finally { isProcessing = false }: the flag every return and every
\* exception of the try leaves.
Finally == FALSE

\* The call is over: its locals are gone.
Return(p, pc) == [inv EXCEPT ![p] = [IdleInv EXCEPT !.pc = pc]]

\* Faulty variant: the flag is not consulted.
AlreadyRunning_Never == FALSE

\* The guard of processPendingEmbeddings.
AlreadyRunning == isProcessing

\* Faulty variant: the flag is taken before the model is looked at.
Enter_FlagBeforeReady(p) ==
  /\ inv[p].pc = "idle"
  /\ \A q \in Invocations : q < p => inv[q].pc # "idle"
  /\ IF AlreadyRunning
       THEN /\ inv' = [inv EXCEPT ![p].pc = "skipRunning"]
            /\ UNCHANGED isProcessing
       ELSE IF ~IsAIModelReady
       THEN /\ inv' = [inv EXCEPT ![p].pc = "skipNotReady"]
            /\ isProcessing' = TRUE
       ELSE /\ isProcessing' = TRUE
            /\ inv' = [inv EXCEPT ![p].pc = "find"]

\* processPendingEmbeddings() up to its first await.
Enter(p) ==
  /\ inv[p].pc = "idle"
  /\ \A q \in Invocations : q < p => inv[q].pc # "idle"
  /\ IF AlreadyRunning
       THEN /\ inv' = [inv EXCEPT ![p].pc = "skipRunning"]
            /\ UNCHANGED isProcessing
       ELSE IF ~IsAIModelReady
       THEN /\ inv' = [inv EXCEPT ![p].pc = "skipNotReady"]
            /\ UNCHANGED isProcessing
       ELSE /\ isProcessing' = TRUE
            /\ inv' = [inv EXCEPT ![p].pc = "find"]

\* setInterval callback.
TimerFire(p) ==
  /\ activeIntervals > 0
  /\ Enter(p)
  /\ UNCHANGED <<storeVars, points, timerVars,
                 modelVars, qdrantVars, serverPc, req>>

\* await Image.find(...).limit(10), then the loop up to its first await.
Find(p, ok) ==
  /\ inv[p].pc = "find"
  /\ IF ~ok
       THEN /\ inv' = Return(p, AfterOuterCatch)
            /\ isProcessing' = Finally
       ELSE IF Len(ImagesToProcess) = 0
       THEN /\ inv' = Return(p, "idle")
            /\ isProcessing' = Finally
       ELSE /\ inv' = [inv EXCEPT ![p].pc = "markProcessing",
                                  ![p].batch = ImagesToProcess, ![p].i = 1]
            /\ UNCHANGED isProcessing
  /\ UNCHANGED <<storeVars, points, timerVars,
                 modelVars, qdrantVars, serverPc, req>>

\* await Image.findByIdAndUpdate(processing)
MarkProcessing(p, ok) ==
  /\ inv[p].pc = "markProcessing"
  /\ IF ok
       THEN /\ images' = FindByIdAndUpdate(Cur(p).id, ProcessingUpdate(images[Cur(p).id]))
            /\ inv' = [inv EXCEPT ![p].pc = "embed"]
       ELSE /\ inv' = [inv EXCEPT ![p].pc = "catch", ![p].error = MongoError]
            /\ UNCHANGED images
  /\ UNCHANGED <<nextId, points, isProcessing, timerVars, modelVars, qdrantVars, serverPc, req>>

\* await generateImageEmbedding(image.filePath), then if (isQdrantConnected())
GenerateEmbedding(p, ok) ==
  /\ inv[p].pc = "embed"
  /\ inv' = [inv EXCEPT
       ![p].embedded = IF ok THEN "ok" ELSE "threw",
       ![p].error = IF ok THEN Null ELSE EmbedError,
       ![p].upserted = IF ok /\ ~isQdrantAvailable THEN "skipped" ELSE "none",
       ![p].pc = IF ~ok THEN "catch"
                 ELSE IF isQdrantAvailable THEN "upsert" ELSE "markCompleted"]
  /\ UNCHANGED <<storeVars, points, isProcessing, timerVars, modelVars, qdrantVars, serverPc, req>>

\* await checkQdrantHealth(); await qdrant.upsert(...)
QdrantUpsert(p, healthOk, ok) ==
  /\ inv[p].pc = "upsert"
  /\ isQdrantAvailable' = HealthFlag(healthOk)
  /\ reconnectPending' = HealthReconnect(healthOk)
  /\ UNCHANGED <<qdrantClient, qdrantInits>>
  /\ IF ok
       THEN /\ points' = UpsertPoint(Cur(p).id, Cur(p).id, Cur(p).user)
            /\ inv' = [inv EXCEPT ![p].pc = "markCompleted", ![p].upserted = "ok"]
       ELSE /\ inv' = [inv EXCEPT ![p].pc = "catch", ![p].upserted = "threw",
                                  ![p].error = QdrantError]
            /\ UNCHANGED points
  /\ UNCHANGED <<storeVars, isProcessing, timerVars, modelVars, serverPc, req>>

\* await Image.findByIdAndUpdate(completed); return true
MarkCompleted(p, ok) ==
  /\ inv[p].pc = "markCompleted"
  /\ IF ok
       THEN /\ images' = FindByIdAndUpdate(Cur(p).id, CompletedUpdate(images[Cur(p).id]))
            /\ inv' = [inv EXCEPT ![p].pc = "loop"]
       ELSE /\ inv' = [inv EXCEPT ![p].pc = "catch", ![p].error = MongoError]
            /\ UNCHANGED images
  /\ UNCHANGED <<nextId, points, isProcessing, timerVars, modelVars, qdrantVars, serverPc, req>>

\* catch (error): await Image.findByIdAndUpdate(failed); return false.
\* When this update throws, the exception leaves processImageEmbedding and
\* reaches the catch of processPendingEmbeddings: the loop is over.
CatchUpdate(p, ok) ==
  /\ inv[p].pc = "catch"
  /\ IF ok
       THEN /\ images' = FindByIdAndUpdate(Cur(p).id,
                            FailedUpdate(images[Cur(p).id], inv[p].error))
            /\ inv' = [inv EXCEPT ![p].pc = "loop"]
            /\ UNCHANGED isProcessing
       ELSE /\ inv' = Return(p, AfterOuterCatch)
            /\ isProcessing' = Finally
            /\ UNCHANGED images
  /\ UNCHANGED <<nextId, points, timerVars, modelVars, qdrantVars, serverPc, req>>

\* for (const image of imagesToProcess): the next document, or the end.
Loop(p) ==
  /\ inv[p].pc = "loop"
  /\ inv' = [inv EXCEPT
       ![p].pc = IF inv[p].i < Len(inv[p].batch) THEN "markProcessing" ELSE "count",
       ![p].i = @ + 1,
       ![p].embedded = "none", ![p].upserted = "none", ![p].error = Null]
  /\ UNCHANGED <<storeVars, points, isProcessing, timerVars, modelVars, qdrantVars, serverPc, req>>

\* await Image.countDocuments(...); finally { isProcessing = false }
CountRemaining(p, ok) ==
  /\ inv[p].pc = "count"
  /\ inv' = Return(p, IF ok THEN "idle" ELSE AfterOuterCatch)
  /\ isProcessing' = Finally
  /\ UNCHANGED <<storeVars, points, timerVars, modelVars, qdrantVars, serverPc, req>>

\* The promise of a call that returned at once is dropped.
Release(p) ==
  /\ Skipped(p)
  /\ inv' = [inv EXCEPT ![p] = IdleInv]
  /\ UNCHANGED <<storeVars, points, isProcessing, timerVars, modelVars, qdrantVars, serverPc, req>>

\* Faulty variant: a timer is set whether or not one is held.
StartEmbeddingProcessor_NoGuard(p) ==
  /\ Enter(p)
  /\ processingInterval' = TRUE
  /\ activeIntervals' = activeIntervals + 1

\* startEmbeddingProcessor(): one pass at once, then one per interval.
StartEmbeddingProcessor(p) ==
  IF processingInterval
    THEN UNCHANGED <<inv, isProcessing, timerVars>>
    ELSE /\ Enter(p)
         /\ processingInterval' = TRUE
         /\ activeIntervals' = activeIntervals + 1

\* Faulty variant: stopping also gives up the flag of the pass in flight.
StopEmbeddingProcessor_ReleasesFlag ==
  /\ IF processingInterval
       THEN /\ processingInterval' = FALSE
            /\ activeIntervals' = activeIntervals - 1
       ELSE UNCHANGED timerVars
  /\ isProcessing' = FALSE
  /\ UNCHANGED inv

\* stopEmbeddingProcessor(): clearInterval of the timer held, if any.
StopEmbeddingProcessor ==
  /\ IF processingInterval
       THEN /\ processingInterval' = FALSE
            /\ activeIntervals' = activeIntervals - 1
       ELSE UNCHANGED timerVars
  /\ UNCHANGED <<inv, isProcessing>>

\* The module's exports called while the server runs.
StartCall(p) ==
  /\ serverPc = "listening"
  /\ StartEmbeddingProcessor(p)
  /\ UNCHANGED <<storeVars, points, modelVars, qdrantVars, serverPc, req>>

StopCall ==
  /\ serverPc = "listening"
  /\ StopEmbeddingProcessor
  /\ UNCHANGED <<storeVars, points, modelVars, qdrantVars, serverPc, req>>

\* ------------------------------------------------------------ server
\* server.js, startServer: initQdrant, initAIModel, then the processor is
\* started only when the model loaded, then the routes are served.
ServerInitQdrant(ok) ==
  /\ serverPc = "initQdrant"
  /\ InitQdrantEffect(ok)
  /\ serverPc' = "initAIModel"
  /\ UNCHANGED <<storeVars, points, processorVars, modelVars, qdrantInits, req>>

ServerInitAIModel(ok) ==
  /\ serverPc = "initAIModel"
  /\ InitAIModelEffect(ok)
  /\ serverPc' = IF ok THEN "startProcessor" ELSE "listening"
  /\ UNCHANGED <<storeVars, points, processorVars, qdrantVars, req>>

ServerStartProcessor(p) ==
  /\ serverPc = "startProcessor"
  /\ StartEmbeddingProcessor(p)
  /\ serverPc' = "listening"
  /\ UNCHANGED <<storeVars, points, modelVars, qdrantVars,
                 req>>

\* ---------------------------------------------------------- requests
\* controllers/imageController.js.  One request is handled at a time; req is
\* the handler's position and locals.
\* vector is what became of the best-effort qdrant.delete, status and error
\* are the response once it is sent (pc = "responded").  A search keeps its
\* body (query, limit, name), the embedding of the query, the hits of
\* qdrant.search, the images and searchType it answers, and the calls it
\* has made to the model and to Qdrant; requested is the number of
\* neighbours it asks of qdrant.search, hits their (imageId, score) in the
\* order Qdrant returns them, fetched what Image.find returns for them.
\* An edit keeps the isEmbedded of the document findById loaded.
IdleReq == [ pc |-> "idle", kind |-> "none", user |-> "none", id |-> NullId,
             isEmbedded |-> FALSE, title |-> "none",
             vector |-> "none", status |-> 0, error |-> Null,
             stats |-> <<>>,
             query |-> Null, limit |-> 0, name |-> Null,
             embedding |-> "none", requested |-> 0,
             hits |-> <<>>, fetched |-> <<>>, results |-> <<>>,
             searchType |-> "none", unembeddedCount |-> 0, warning |-> FALSE,
             calls |-> {} ]

\* Whether the upload handler tries to embed before it creates the document.
FastPath(kind) ==
  IF kind = "multiple" THEN IsAIModelReady /\ isQdrantAvailable
  ELSE isQdrantAvailable

\* The document Image.create is given.
UploadedImage(kind, user, title, embedded) ==
  IF kind = "multiple"
    THEN [ NewImage(user, title) EXCEPT
             !.isEmbedded = embedded,
             !.embeddingStatus = IF embedded THEN "completed" ELSE "pending",
             !.embeddingAttempts = IF embedded THEN 1 ELSE 0 ]
    ELSE NewImage(user, title)

\* Whether the handler sets the payload's imageId after Image.create.
WantsSetPayload(kind, embedded) ==
  IF kind = "multiple" THEN embedded /\ isQdrantAvailable ELSE isQdrantAvailable

\* The upload ends.  uploadMultipleImages triggers a pass with setImmediate:
\* the callback runs in the same turn of the event loop, here at the end of
\* the handler's last segment, as call p.
UploadEnds(kind, p) ==
  /\ req' = IdleReq
  /\ IF kind = "multiple" THEN Enter(p) ELSE UNCHANGED <<inv, isProcessing>>

\* uploadImage answers 503 while the model is not ready.
UploadRefused(kind) == kind = "single" /\ ~IsAIModelReady

\* uploadImage / uploadMultipleImages (one file) up to Image.create: the
\* refusal of uploadImage, or a fresh qdrantId, and on the fast path
\* checkQdrantHealth, generateImageEmbedding and qdrant.upsert in one try;
\* vector tells whether the point was stored.
UploadStart(kind, user, title, healthOk, embedOk, upsertOk) ==
  /\ serverPc = "listening"
  /\ req.pc = "idle"
  /\ nextId <= MaxImages
  /\ IF UploadRefused(kind)
       THEN /\ req' = [ IdleReq EXCEPT !.pc = "responded", !.kind = kind,
                                       !.user = user, !.status = 503 ]
            /\ UNCHANGED <<nextId, points, isQdrantAvailable, reconnectPending>>
       ELSE /\ nextId' = nextId + 1
            /\ LET stored == FastPath(kind) /\ embedOk /\ upsertOk IN
                 /\ points' = IF stored THEN UpsertPoint(nextId, NullId, user)
                              ELSE points
                 /\ req' = [ IdleReq EXCEPT
                               !.pc = "create", !.kind = kind, !.user = user,
                               !.id = nextId, !.title = title,
                               !.isEmbedded = (kind = "multiple" /\ stored),
                               !.vector = IF stored THEN "upserted" ELSE "none" ]
            /\ isQdrantAvailable' = IF FastPath(kind) THEN HealthFlag(healthOk)
                                    ELSE isQdrantAvailable
            /\ reconnectPending' = IF FastPath(kind) THEN HealthReconnect(healthOk)
                                   ELSE reconnectPending
  /\ UNCHANGED <<images, processorVars, modelVars, qdrantClient, qdrantInits, serverPc>>

\* await Image.create(...)
UploadCreate(ok, p) ==
  /\ req.pc = "create"
  /\ IF ok
       THEN /\ images' = images @@
                 (req.id :> UploadedImage(req.kind, req.user, req.title, req.isEmbedded))
            /\ IF WantsSetPayload(req.kind, req.isEmbedded)
                 THEN /\ req' = [req EXCEPT !.pc = "setPayload"]
                      /\ UNCHANGED <<inv, isProcessing>>
                 ELSE UploadEnds(req.kind, p)
       ELSE /\ UNCHANGED images
            /\ UploadEnds(req.kind, p)
  /\ UNCHANGED <<nextId, points, timerVars,
                 modelVars, qdrantVars, serverPc>>

\* await qdrant.setPayload(...): errors are logged and dropped.
UploadSetPayload(ok, p) ==
  /\ req.pc = "setPayload"
  /\ points' = IF ok /\ req.id \in DOMAIN points
                 THEN [points EXCEPT ![req.id].imageId = req.id]
                 ELSE points
  /\ UploadEnds(req.kind, p)
  /\ UNCHANGED <<storeVars, timerVars,
                 modelVars, qdrantVars, serverPc>>

\* deleteImage up to Collection.updateMany: findById, the ownership check,
\* and the best-effort qdrant.delete.
\* What becomes of the point: the delete is tried only when Qdrant is
\* flagged connected, and its failure is logged and dropped.
VectorOutcome(ok) ==
  IF ~isQdrantAvailable THEN "skipped" ELSE IF ok THEN "deleted" ELSE "failed"

\* Faulty variant: a failure of qdrant.delete ends the request with 500.
DeleteStart_VectorFatal(user, id, ok) ==
  /\ serverPc = "listening"
  /\ req.pc = "idle"
  /\ Exists(id)
  /\ images[id].user = user
  /\ points' = IF VectorOutcome(ok) = "deleted" THEN Without(points, id) ELSE points
  /\ req' = IF VectorOutcome(ok) = "failed"
              THEN [ IdleReq EXCEPT !.pc = "responded", !.kind = "delete", !.id = id,
                                    !.user = user, !.isEmbedded = images[id].isEmbedded,
                                    !.vector = "failed", !.status = 500,
                                    !.error = QdrantError ]
              ELSE [ IdleReq EXCEPT !.pc = "deleteOne", !.kind = "delete", !.id = id,
                                    !.user = user, !.isEmbedded = images[id].isEmbedded,
                                    !.vector = VectorOutcome(ok) ]
  /\ UNCHANGED <<storeVars, processorVars, modelVars, qdrantVars, serverPc>>

\* Faulty variant: the point is left in Qdrant.
DeleteStart_KeepsVector(user, id, ok) ==
  /\ serverPc = "listening"
  /\ req.pc = "idle"
  /\ Exists(id)
  /\ images[id].user = user
  /\ UNCHANGED points
  /\ req' = [ IdleReq EXCEPT !.pc = "deleteOne", !.kind = "delete", !.id = id,
                             !.user = user, !.isEmbedded = images[id].isEmbedded,
                             !.vector = VectorOutcome(ok) ]
  /\ UNCHANGED <<storeVars, processorVars, modelVars, qdrantVars, serverPc>>

DeleteStart(user, id, ok) ==
  /\ serverPc = "listening"
  /\ req.pc = "idle"
  /\ Exists(id)
  /\ images[id].user = user
  /\ points' = IF VectorOutcome(ok) = "deleted" THEN Without(points, id) ELSE points
  /\ req' = [ IdleReq EXCEPT !.pc = "deleteOne", !.kind = "delete", !.id = id,
                             !.user = user, !.isEmbedded = images[id].isEmbedded,
                             !.vector = VectorOutcome(ok) ]
  /\ UNCHANGED <<storeVars, processorVars, modelVars, qdrantVars, serverPc>>

\* await Collection.updateMany(...); await image.deleteOne(); then
\* res.json(success), or the 500 of the outer catch.
DeleteOne(ok) ==
  /\ req.pc = "deleteOne"
  /\ images' = IF ok THEN Without(images, req.id) ELSE images
  /\ req' = [ req EXCEPT !.pc = "responded",
                         !.status = IF ok THEN 200 ELSE 500,
                         !.error = IF ok THEN Null ELSE MongoError ]
  /\ UNCHANGED <<nextId, points, processorVars, modelVars, qdrantVars, serverPc>>

\* The response is sent and the handler is over.
Respond ==
  /\ req.pc = "responded"
  /\ req' = IdleReq
  /\ UNCHANGED <<storeVars, points, processorVars, modelVars, qdrantVars, serverPc>>

\* The titles an edit gives: none is the title of an upload.
EditedTitles == {"c"}

\* updateImage up to image.save(): findById and the ownership check.
EditStart(user, id, title) ==
  /\ serverPc = "listening"
  /\ req.pc = "idle"
  /\ Exists(id)
  /\ images[id].user = user
  /\ req' = [ IdleReq EXCEPT !.pc = "save", !.kind = "edit", !.id = id,
                             !.user = user, !.title = title,
                             !.isEmbedded = images[id].isEmbedded ]
  /\ UNCHANGED <<storeVars, points, processorVars, modelVars, qdrantVars, serverPc>>

\* Faulty variant: save writes back paths the handler did not modify, as it
\* loaded them.
Saved_LoadedPaths(stored, isEmbedded, title) ==
  [stored EXCEPT !.title = title, !.isEmbedded = isEmbedded]

\* What image.save() leaves in the store: Mongoose writes the modified
\* paths only ($set of title, description, tags, isPublic).
Saved(stored, isEmbedded, title) == [stored EXCEPT !.title = title]

\* await image.save(), then res.json; a save that throws (the document is
\* gone, MongoDB fails) is answered 500.
EditSave(ok) ==
  /\ req.pc = "save"
  /\ IF ok /\ Exists(req.id)
       THEN /\ images' = [images EXCEPT
                            ![req.id] = Saved(images[req.id], req.isEmbedded, req.title)]
            /\ req' = [req EXCEPT !.pc = "responded", !.status = 200]
       ELSE /\ UNCHANGED images
            /\ req' = [req EXCEPT !.pc = "responded", !.status = 500,
                                  !.error = MongoError]
  /\ UNCHANGED <<nextId, points, processorVars, modelVars, qdrantVars, serverPc>>

\* ------------------------------------------------------------- stats
\* getEmbeddingStats (services/embeddingProcessor.js).  JavaScript numbers
\* are IEEE 754 doubles: (embedded / total) * 100 is rounded to 53
\* significant bits after the division and again after the product.  A
\* positive double is [sig, exp]: sig is its 53-bit significand written in
\* limbs of LimbBits bits, most significant first (the first limb is the
\* leading bit), and its value is the integer sig times 2^exp.
SignificandBits == 53
LimbBits == 13
Limb == 2 ^ LimbBits
SigLimbs == (SignificandBits - 1) \div LimbBits

\* x * c + a on limbs; the first limb takes what overflows.
RECURSIVE MulAdd(_, _, _)
MulAdd(x, c, a) ==
  IF Len(x) = 1 THEN << x[1] * c + a >>
  ELSE LET v == x[Len(x)] * c + a
       IN MulAdd(SubSeq(x, 1, Len(x) - 1), c, v \div Limb) \o << v % Limb >>

\* Round to nearest, ties to even: kept is the first 53 bits of the exact
\* value, exp the exponent of the last of them, up tells whether what was cut
\* off is more than half a unit of it, tie whether it is exactly half.
RoundToDouble(kept, exp, up, tie) ==
  IF up \/ (tie /\ kept[Len(kept)] % 2 = 1)
    THEN LET inc == MulAdd(kept, 1, 1) IN
           IF inc[1] = 2                        \* 2^53: one more binary place
             THEN [sig |-> [inc EXCEPT ![1] = 1], exp |-> exp + 1]
             ELSE [sig |-> inc, exp |-> exp]
    ELSE [sig |-> kept, exp |-> exp]

\* The number of zero bits of r / t (0 < r < t) after the binary point.
RECURSIVE LeadingZeros(_, _)
LeadingZeros(r, t) == IF 2 * r >= t THEN 0 ELSE 1 + LeadingZeros(2 * r, t)

\* Long division: the next n limbs of r / t (r < t), and the remainder.
RECURSIVE DivLimbs(_, _, _)
DivLimbs(r, t, n) ==
  IF n = 0 THEN [limbs |-> <<>>, rem |-> r]
  ELSE LET rest == DivLimbs((r * Limb) % t, t, n - 1)
       IN [limbs |-> <<(r * Limb) \div t>> \o rest.limbs, rem |-> rest.rem]

\* The double e / t, for 0 < e < t.
DoubleDiv(e, t) ==
  LET k == LeadingZeros(e, t)
      d == DivLimbs(2 * e * 2 ^ k - t, t, SigLimbs)
  IN RoundToDouble(<<1>> \o d.limbs, 0 - (k + SignificandBits),
                   2 * d.rem > t, 2 * d.rem = t)

\* The number of bits of n > 0.
RECURSIVE BitLength(_)
BitLength(n) == IF n = 0 THEN 0 ELSE 1 + BitLength(n \div 2)

\* The double f * c, for an integer 1 <= c < Limb.
DoubleMul(f, c) ==
  LET product == MulAdd(f.sig, c, 0)
      s == BitLength(product[1]) - 1          \* places to cut off
      pow == 2 ^ s
      kept == [ i \in 1..Len(product) |->
                  (IF i > 1 THEN (product[i - 1] % pow) * (Limb \div pow) ELSE 0)
                  + product[i] \div pow ]
      cut == product[Len(product)] % pow
  IN RoundToDouble(kept, f.exp + s, 2 * cut > pow, 2 * cut = pow)

\* Math.round of a positive double below 2^LimbBits: the nearest integer, a
\* half going up.
MathRound(f) ==
  LET whole == SignificandBits + f.exp       \* bits before the binary point
      top == f.sig[1] * Limb + f.sig[2]       \* the first LimbBits + 1 bits
  IN IF whole < 0 THEN 0
     ELSE LET w == top \div 2 ^ (LimbBits - whole) IN (w \div 2) + (w % 2)

\* total > 0 ? Math.round((embedded / total) * 100) : 0
Percentage(embedded, total) ==
  IF total > 0
    THEN IF embedded = 0 THEN 0
         ELSE IF embedded = total THEN 100
         ELSE MathRound(DoubleMul(DoubleDiv(embedded, total), 100))
    ELSE 0

\* The documents matching query = userId ? { user: userId } : {}.
StatsQuery(owner) ==
  {id \in DOMAIN images : owner = Null \/ images[id].user = owner}

EmbeddingStats(owner) ==
  LET total == Cardinality(StatsQuery(owner))
      embedded == Cardinality({id \in StatsQuery(owner) : images[id].isEmbedded})
  IN [ total |-> total,
       embedded |-> embedded,
       pending |-> Cardinality({id \in StatsQuery(owner) :
                     images[id].embeddingStatus = "pending"}),
       processing |-> Cardinality({id \in StatsQuery(owner) :
                     images[id].embeddingStatus = "processing"}),
       failed |-> Cardinality({id \in StatsQuery(owner) :
                     /\ images[id].embeddingStatus = "failed"
                     /\ images[id].embeddingAttempts < MAX_EMBEDDING_ATTEMPTS}),
       percentage |-> Percentage(embedded, total) ]

\* GET /api/images/stats/embeddings (owner = the user) and the health
\* report (no owner): the stats are computed and sent.
StatsRequest(owner) ==
  /\ serverPc = "listening"
  /\ req.pc = "idle"
  /\ req' = [ IdleReq EXCEPT !.pc = "responded", !.kind = "stats",
                             !.user = owner, !.status = 200,
                             !.stats = EmbeddingStats(owner) ]
  /\ UNCHANGED <<storeVars, points, processorVars, modelVars, qdrantVars, serverPc>>

\* ------------------------------------------------------------ search
\* searchImages (controllers/imageController.js).
OVERSAMPLE == 3

\* The bodies tried: no query, an empty one, a blank one, a real one; a name
\* filter or none.
Queries == {Null, "", " ", "sunset"}
Names == {Null, "a"}
Limits == 1..MaxImages

\* String.prototype.trim on the queries tried.
Trim(q) == IF q = " " THEN "" ELSE q

\* !q for a string or undefined.
Falsy(q) == q \in {Null, ""}

\* Faulty variant: the query is not trimmed.
IsBlank_NoTrim(q) == Falsy(q)

\* !query || !query.trim()
IsBlank(q) == Falsy(q) \/ Falsy(Trim(q))

\* Faulty variant: the filter does not name the caller.
BaseFilter_AnyUser(id, user, name) ==
  Falsy(name) \/ images[id].title = name

\* baseFilter: the caller's documents, and the name filter when one is given
\* (a case-insensitive match in the title).
BaseFilter(id, user, name) ==
  /\ images[id].user = user
  /\ Falsy(name) \/ images[id].title = name

\* The documents baseFilter selects.
Matching(user, name) == {id \in DOMAIN images : BaseFilter(id, user, name)}

\* Image.find(baseFilter).sort({ createdAt: -1 }): the newest first; _ids
\* are given in the order of creation.
RECURSIVE NewestFirst(_, _, _)
NewestFirst(n, user, name) ==
  IF n = 0 THEN <<>>
  ELSE IF Exists(n) /\ BaseFilter(n, user, name)
       THEN <<n>> \o NewestFirst(n - 1, user, name)
       ELSE NewestFirst(n - 1, user, name)

\* The answers of the handler.
Answer(status, searchType, results, error) ==
  [ req EXCEPT !.pc = "responded", !.status = status, !.searchType = searchType,
               !.results = results, !.error = error ]

\* The 500 of the outer catch: no searchType.
OuterCatch(error) == Answer(500, "none", <<>>, error)

\* The catch of the AI search: 400 for a Bad Request of Qdrant, 500 for
\* every other error, both with searchType "ai".
BadRequest == "Bad Request"
InvalidEmbedding == "Invalid embedding generated"
NoPoints == "No embedded images available for AI search"
NoResults == "No AI search results found"

AISearchFailed(error) ==
  Answer(IF error = BadRequest THEN 400 ELSE 500, "ai", <<>>, error)

\* 503: AI search is currently unavailable.
Unavailable == Answer(503, "unavailable", <<>>, Null)

\* The handler up to its first await: Image.find for a blank query,
\* Image.countDocuments otherwise.
SearchStart(user, query, limit, name) ==
  /\ serverPc = "listening"
  /\ req.pc = "idle"
  /\ req' = [ IdleReq EXCEPT
                !.pc = IF IsBlank(query) THEN "findAll" ELSE "count",
                !.kind = "search", !.user = user,
                !.query = query, !.limit = limit, !.name = name ]
  /\ UNCHANGED <<storeVars, points, processorVars, modelVars, qdrantVars, serverPc>>

\* await Image.find(baseFilter).sort(...).limit(limit)
SearchFindAll(ok) ==
  /\ req.pc = "findAll"
  /\ req' = IF ok
              THEN Answer(200, "all",
                          Limit(NewestFirst(nextId - 1, req.user, req.name), req.limit),
                          Null)
              ELSE OuterCatch(MongoError)
  /\ UNCHANGED <<storeVars, points, processorVars, modelVars, qdrantVars, serverPc>>

\* Faulty variant: the documents of every user are counted.
UnembeddedQuery_AllUsers(user) ==
  {id \in DOMAIN images : ~images[id].isEmbedded}

\* { user: req.user._id, isEmbedded: false }
UnembeddedQuery(user) ==
  {id \in DOMAIN images : images[id].user = user /\ ~images[id].isEmbedded}

\* warning: unembeddedCount > 0 ? `... not yet indexed ...` : null
Warning(unembeddedCount) == unembeddedCount > 0

\* await Image.countDocuments({ user, isEmbedded: false }), then
\* isQdrantConnected(): checkQdrantHealth is called only when it is true.
SearchCount(ok) ==
  /\ req.pc = "count"
  /\ req' = IF ~ok THEN OuterCatch(MongoError)
            ELSE LET counted == Cardinality(UnembeddedQuery(req.user))
                 IN IF isQdrantAvailable
                      THEN [ req EXCEPT !.pc = "health", !.unembeddedCount = counted,
                                        !.calls = @ \cup {"health"} ]
                      ELSE [ Unavailable EXCEPT !.unembeddedCount = counted ]
  /\ UNCHANGED <<storeVars, points, processorVars, modelVars, qdrantVars, serverPc>>

\* Faulty variant: the model is not looked at.
UseAISearch_IgnoresModel(healthy) == healthy

\* useAISearch, isQdrantConnected() being true: the health check and the
\* model.
UseAISearch(healthy) == healthy /\ IsAIModelReady

\* await checkQdrantHealth(), then isAIModelReady(); generateTextEmbedding
\* is called when both hold.
SearchHealth(ok) ==
  /\ req.pc = "health"
  /\ isQdrantAvailable' = HealthFlag(ok)
  /\ reconnectPending' = HealthReconnect(ok)
  /\ req' = IF UseAISearch(qdrantClient /\ ok)
              THEN [ req EXCEPT !.pc = "embed", !.calls = @ \cup {"embed"} ]
              ELSE Unavailable
  /\ UNCHANGED <<storeVars, points, processorVars, modelVars, qdrantClient, qdrantInits,
                 serverPc>>

\* await generateTextEmbedding(query): it throws, or returns a vector of
\* the dimension of the collection ("ok"), of another length, or empty.
\* Only the empty one is refused by the handler; then qdrant.getCollection
\* is called.
Embeddings == {"ok", "wrongLength", "empty", "threw"}

SearchEmbed(outcome) ==
  /\ req.pc = "embed"
  /\ req' = IF outcome = "threw" THEN AISearchFailed(EmbedError)
            ELSE IF outcome = "empty"
            THEN [ AISearchFailed(InvalidEmbedding) EXCEPT !.embedding = "empty" ]
            ELSE [ req EXCEPT !.pc = "getCollection", !.embedding = outcome,
                              !.calls = @ \cup {"getCollection"} ]
  /\ UNCHANGED <<storeVars, points, processorVars, modelVars, qdrantVars, serverPc>>

\* limit: parseInt(limit) * 3
RequestedNeighbours(limit) == limit * OVERSAMPLE

\* Faulty variant: with no point in the collection the handler answers the
\* metadata search.
SearchGetCollection_FallsBack(ok) ==
  /\ req.pc = "getCollection"
  /\ req' = IF ~ok THEN AISearchFailed(QdrantError)
            ELSE IF Cardinality(DOMAIN points) = 0
            THEN Answer(200, "all",
                        Limit(NewestFirst(nextId - 1, req.user, req.name), req.limit),
                        Null)
            ELSE [ req EXCEPT !.pc = "search", !.calls = @ \cup {"search"},
                              !.requested = RequestedNeighbours(req.limit) ]
  /\ UNCHANGED <<storeVars, points, processorVars, modelVars, qdrantVars, serverPc>>

\* await qdrant.getCollection(...): points_count = 0 is an error; then
\* qdrant.search is called.
SearchGetCollection(ok) ==
  /\ req.pc = "getCollection"
  /\ req' = IF ~ok THEN AISearchFailed(QdrantError)
            ELSE IF Cardinality(DOMAIN points) = 0 THEN AISearchFailed(NoPoints)
            ELSE [ req EXCEPT !.pc = "search", !.calls = @ \cup {"search"},
                              !.requested = RequestedNeighbours(req.limit) ]
  /\ UNCHANGED <<storeVars, points, processorVars, modelVars, qdrantVars, serverPc>>

\* The points in an order of decreasing score.
Rankings ==
  {s \in [1..Cardinality(DOMAIN points) -> DOMAIN points] :
     \A i, j \in DOMAIN s : i # j => s[i] # s[j]}

\* The score of the hit of rank i among n: scores stand for the cosine
\* similarities Qdrant returns, decreasing along the ranking, some of them
\* positive and some negative.
Score(i, n) == n - 2 * i + 1

\* What qdrant.search returns for a ranking of the points: the first
\* requested of them, each with its payload's imageId and its score.
SearchResults(ranking, requested) ==
  LET top == Limit(ranking, requested) IN
    [ i \in DOMAIN top |->
        [ imageId |-> points[top[i]].imageId, score |-> Score(i, Len(top)) ] ]

\* searchResults.map(r => r.payload.imageId).filter(id => id)
ImageIdsOf(hits) ==
  { hits[i].imageId : i \in {j \in DOMAIN hits : hits[j].imageId # NullId} }

\* searchResults.find(r => r.payload.imageId === id)?.score || 0
ScoreOf(hits, id) ==
  LET found == {i \in DOMAIN hits : hits[i].imageId = id} IN
    IF found = {} THEN 0
    ELSE hits[CHOOSE i \in found : \A j \in found : i <= j].score

\* Faulty variant: Image.find is not restricted to the ids of the hits.
Fetch_IgnoresIds(ids, user, name) == Matching(user, name)

\* Image.find({ _id: { $in: imageIds }, ...baseFilter })
Fetch(ids, user, name) == {id \in Matching(user, name) : id \in ids}

\* The documents of a set in the order Image.find returns them (by _id).
RECURSIVE InIdOrder(_)
InIdOrder(ids) ==
  IF ids = {} THEN <<>>
  ELSE LET first == CHOOSE id \in ids : \A other \in ids : id <= other
       IN <<first>> \o InIdOrder(ids \ {first})

\* Faulty variant: the documents are left in the order of Image.find.
SortByScore_Unsorted(docs, hits) == docs

\* images.sort((a, b) => scoreB - scoreA): Array.prototype.sort is stable.
RECURSIVE SortByScore(_, _)
SortByScore(docs, hits) ==
  IF Len(docs) = 0 THEN <<>>
  ELSE LET best == CHOOSE i \in DOMAIN docs :
                     /\ \A j \in DOMAIN docs :
                          ScoreOf(hits, docs[j]) <= ScoreOf(hits, docs[i])
                     /\ \A j \in DOMAIN docs :
                          ScoreOf(hits, docs[j]) = ScoreOf(hits, docs[i]) => i <= j
       IN <<docs[best]>> \o
            SortByScore(SubSeq(docs, 1, best - 1) \o SubSeq(docs, best + 1, Len(docs)),
                        hits)

\* await qdrant.search(..., { vector, limit: limit * 3 }): Qdrant refuses a
\* vector of the wrong length with 400 Bad Request; with no imageId among
\* the hits the handler throws; then Image.find is called.
SearchQdrant(ok, ranking) ==
  /\ req.pc = "search"
  /\ LET hits == SearchResults(ranking, req.requested) IN
       req' = IF ~ok THEN AISearchFailed(QdrantError)
              ELSE IF req.embedding = "wrongLength" THEN AISearchFailed(BadRequest)
              ELSE IF ImageIdsOf(hits) = {} THEN AISearchFailed(NoResults)
              ELSE [ req EXCEPT !.pc = "find", !.hits = hits ]
  /\ UNCHANGED <<storeVars, points, processorVars, modelVars, qdrantVars, serverPc>>

\* await Image.find({ _id: { $in: imageIds }, ...baseFilter }), the sort by
\* score and the slice to limit.
SearchFind(ok) ==
  /\ req.pc = "find"
  /\ req' = IF ~ok THEN AISearchFailed(MongoError)
            ELSE LET found == InIdOrder(Fetch(ImageIdsOf(req.hits), req.user, req.name))
                 IN [ Answer(200, "ai", Limit(SortByScore(found, req.hits), req.limit),
                             Null)
                      EXCEPT !.fetched = found,
                             !.warning = Warning(req.unembeddedCount) ]
  /\ UNCHANGED <<storeVars, points, processorVars, modelVars, qdrantVars, serverPc>>

\* ------------------------------------------------------ specification
Init ==
  /\ images = <<>>
  /\ nextId = 1
  /\ points = <<>>
  /\ isProcessing = FALSE
  /\ processingInterval = FALSE
  /\ activeIntervals = 0
  /\ inv = [p \in Invocations |-> IdleInv]
  /\ isAIModelAvailable = FALSE
  /\ modelInitializationAttempts = 0
  /\ qdrantClient = FALSE
  /\ isQdrantAvailable = FALSE
  /\ reconnectPending = FALSE
  /\ qdrantInits = 0
  /\ serverPc = "initQdrant"
  /\ req = IdleReq

Next ==
  \/ \E ok \in BOOLEAN : ServerInitQdrant(ok)
  \/ \E ok \in BOOLEAN : ServerInitAIModel(ok)
  \/ \E p \in Invocations : ServerStartProcessor(p)
  \/ ReconnectFire
  \/ \E ok \in BOOLEAN : ReconnectInit(ok)
  \/ \E ok \in BOOLEAN : ModelRetryFire(ok)
  \/ \E d \in TickSteps : Tick(d)
  \/ \E p \in Invocations : TimerFire(p)
  \/ \E p \in Invocations, ok \in BOOLEAN : Find(p, ok)
  \/ \E p \in Invocations, ok \in BOOLEAN : MarkProcessing(p, ok)
  \/ \E p \in Invocations, ok \in BOOLEAN : GenerateEmbedding(p, ok)
  \/ \E p \in Invocations, h \in BOOLEAN, ok \in BOOLEAN : QdrantUpsert(p, h, ok)
  \/ \E p \in Invocations, ok \in BOOLEAN : MarkCompleted(p, ok)
  \/ \E p \in Invocations, ok \in BOOLEAN : CatchUpdate(p, ok)
  \/ \E p \in Invocations : Loop(p)
  \/ \E p \in Invocations, ok \in BOOLEAN : CountRemaining(p, ok)
  \/ \E p \in Invocations : Release(p)
  \/ \E kind \in {"single", "multiple"}, user \in Users, title \in Titles,
        h \in BOOLEAN, e \in BOOLEAN, u \in BOOLEAN :
          nextId <= FullImages /\ UploadStart(kind, user, title, h, e, u)
  \/ \E ok \in BOOLEAN, p \in Invocations : UploadCreate(ok, p)
  \/ \E ok \in BOOLEAN, p \in Invocations : UploadSetPayload(ok, p)
  \/ \E user \in Users, id \in ImageIds, ok \in BOOLEAN : DeleteStart(user, id, ok)
  \/ \E ok \in BOOLEAN : DeleteOne(ok)
  \/ Respond
  \/ \E user \in Users, id \in ImageIds, title \in EditedTitles :
       EditStart(user, id, title)
  \/ \E ok \in BOOLEAN : EditSave(ok)

\* The full system, from the start of the server.
Spec == Init /\ [][Next]_vars

\* The processor working on batches of several documents: the server
\* starts, images are uploaded and passes run; no edit, no delete, no
\* timer of the gateways, and the clock is not advanced.
NextBatch ==
  \/ \E ok \in BOOLEAN : ServerInitQdrant(ok)
  \/ \E ok \in BOOLEAN : ServerInitAIModel(ok)
  \/ \E p \in Invocations : ServerStartProcessor(p)
  \/ \E p \in Invocations : TimerFire(p)
  \/ \E p \in Invocations, ok \in BOOLEAN : Find(p, ok)
  \/ \E p \in Invocations, ok \in BOOLEAN : MarkProcessing(p, ok)
  \/ \E p \in Invocations, ok \in BOOLEAN : GenerateEmbedding(p, ok)
  \/ \E p \in Invocations, h \in BOOLEAN, ok \in BOOLEAN : QdrantUpsert(p, h, ok)
  \/ \E p \in Invocations, ok \in BOOLEAN : MarkCompleted(p, ok)
  \/ \E p \in Invocations, ok \in BOOLEAN : CatchUpdate(p, ok)
  \/ \E p \in Invocations : Loop(p)
  \/ \E p \in Invocations, ok \in BOOLEAN : CountRemaining(p, ok)
  \/ \E p \in Invocations : Release(p)
  \/ \E kind \in {"single", "multiple"}, user \in Users, title \in Titles,
        h \in BOOLEAN, e \in BOOLEAN, u \in BOOLEAN :
          UploadStart(kind, user, title, h, e, u)
  \/ \E ok \in BOOLEAN, p \in Invocations : UploadCreate(ok, p)
  \/ \E ok \in BOOLEAN, p \in Invocations : UploadSetPayload(ok, p)
  \/ Respond

SpecBatch == Init /\ [][NextBatch]_vars

\* The processor being started and stopped while it works: the server
\* starts, startEmbeddingProcessor and stopEmbeddingProcessor are called at
\* any time, images are uploaded by one user through uploadMultipleImages,
\* and passes run.
NextSchedule ==
  \/ \E ok \in BOOLEAN : ServerInitQdrant(ok)
  \/ \E ok \in BOOLEAN : ServerInitAIModel(ok)
  \/ \E p \in Invocations : ServerStartProcessor(p)
  \/ \E p \in Invocations : StartCall(p)
  \/ StopCall
  \/ \E p \in Invocations : TimerFire(p)
  \/ \E p \in Invocations, ok \in BOOLEAN : Find(p, ok)
  \/ \E p \in Invocations, ok \in BOOLEAN : MarkProcessing(p, ok)
  \/ \E p \in Invocations, ok \in BOOLEAN : GenerateEmbedding(p, ok)
  \/ \E p \in Invocations, h \in BOOLEAN, ok \in BOOLEAN : QdrantUpsert(p, h, ok)
  \/ \E p \in Invocations, ok \in BOOLEAN : MarkCompleted(p, ok)
  \/ \E p \in Invocations, ok \in BOOLEAN : CatchUpdate(p, ok)
  \/ \E p \in Invocations : Loop(p)
  \/ \E p \in Invocations, ok \in BOOLEAN : CountRemaining(p, ok)
  \/ \E p \in Invocations : Release(p)
  \/ \E h \in BOOLEAN, e \in BOOLEAN, u \in BOOLEAN :
          UploadStart("multiple", "u1", "a", h, e, u)
  \/ \E ok \in BOOLEAN, p \in Invocations : UploadCreate(ok, p)
  \/ \E ok \in BOOLEAN, p \in Invocations : UploadSetPayload(ok, p)

SpecSchedule == Init /\ [][NextSchedule]_vars

\* A collection of total documents uploaded by two users in turn, the first
\* embedded of them embedded at upload, in a server that is listening.
StatsCollection(total, embedded) ==
  [ id \in 1..total |->
      UploadedImage("multiple", IF id % 2 = 1 THEN "u1" ELSE "u2", "a",
                    id <= embedded) ]

InitStats ==
  /\ \E total \in 0..MaxStatDocs : \E embedded \in 0..total :
       /\ images = StatsCollection(total, embedded)
       /\ nextId = total + 1
       /\ points = [ id \in 1..embedded |->
                       [imageId |-> id, userId |-> images[id].user] ]
  /\ isProcessing = FALSE
  /\ processingInterval = TRUE
  /\ activeIntervals = 1
  /\ inv = [p \in Invocations |-> IdleInv]
  /\ isAIModelAvailable = TRUE
  /\ modelInitializationAttempts = 1
  /\ qdrantClient = TRUE
  /\ isQdrantAvailable = TRUE
  /\ reconnectPending = FALSE
  /\ qdrantInits = 0
  /\ serverPc = "listening"
  /\ req = IdleReq

NextStats ==
  \/ \E owner \in Users \cup {Null} : StatsRequest(owner)
  \/ Respond

\* getEmbeddingStats asked of collections of every size up to MaxStatDocs.
SpecStats == InitStats /\ [][NextStats]_vars

\* The documents a collection may hold when a search comes: uploaded by
\* either user, embedded or not yet, or taken by a pass of the processor
\* that has not finished or has failed.
SearchDocs ==
  { UploadedImage("multiple", user, title, embedded) :
      user \in Users, title \in Titles, embedded \in BOOLEAN }
  \cup { ProcessingUpdate(NewImage(user, "a")) : user \in Users }
  \cup { FailedUpdate(ProcessingUpdate(NewImage(user, "a")), EmbedError) : user \in Users }

\* A server that is listening, with any collection of up to MaxImages
\* documents; any of them has its point in Qdrant, with its imageId set or
\* still null; Qdrant is connected or not, the model loaded or not.
InitSearch ==
  /\ \E n \in 0..MaxImages : \E docs \in [1..n -> SearchDocs] :
       \E stored \in SUBSET (1..n) : \E linked \in SUBSET stored :
         /\ images = docs
         /\ nextId = n + 1
         /\ points = [ id \in stored |->
                         [ imageId |-> IF id \in linked THEN id ELSE NullId,
                           userId |-> docs[id].user ] ]
  /\ isProcessing = FALSE
  /\ inv = [p \in Invocations |-> IdleInv]
  /\ isAIModelAvailable \in BOOLEAN
  /\ modelInitializationAttempts =
       IF isAIModelAvailable THEN 1 ELSE MAX_INIT_ATTEMPTS
  /\ processingInterval = isAIModelAvailable
  /\ activeIntervals = IF isAIModelAvailable THEN 1 ELSE 0
  /\ qdrantClient \in BOOLEAN
  /\ isQdrantAvailable \in {b \in BOOLEAN : b => qdrantClient}
  /\ reconnectPending = ~isQdrantAvailable
  /\ qdrantInits = 0
  /\ serverPc = "listening"
  /\ req = IdleReq

NextSearch ==
  \/ \E query \in Queries, limit \in Limits, name \in Names :
       SearchStart("u1", query, limit, name)
  \/ \E ok \in BOOLEAN : SearchFindAll(ok)
  \/ \E ok \in BOOLEAN : SearchCount(ok)
  \/ \E ok \in BOOLEAN : SearchHealth(ok)
  \/ \E outcome \in Embeddings : SearchEmbed(outcome)
  \/ \E ok \in BOOLEAN : SearchGetCollection(ok)
  \/ \E ok \in BOOLEAN, ranking \in Rankings : SearchQdrant(ok, ranking)
  \/ \E ok \in BOOLEAN : SearchFind(ok)
  \/ Respond

\* searchImages asked by user u1 of every such server.
SpecSearch == InitSearch /\ [][NextSearch]_vars

\* The process dies and is started again: the module state of the
\* processor, of the gateways and of the handlers is lost, MongoDB and
\* Qdrant keep theirs, and startServer runs from its beginning.
Crash ==
  /\ isProcessing' = FALSE
  /\ processingInterval' = FALSE
  /\ activeIntervals' = 0
  /\ inv' = [p \in Invocations |-> IdleInv]
  /\ isAIModelAvailable' = FALSE
  /\ modelInitializationAttempts' = 0
  /\ qdrantClient' = FALSE
  /\ isQdrantAvailable' = FALSE
  /\ reconnectPending' = FALSE
  /\ qdrantInits' = 0
  /\ serverPc' = "initQdrant"
  /\ req' = IdleReq
  /\ UNCHANGED <<storeVars, points>>

\* The processor over a store that answers, in a process that may crash at
\* any point: images are uploaded, passes run, the model and Qdrant may
\* fail, and the updates of the documents succeed.
NextCrash ==
  \/ \E ok \in BOOLEAN : ServerInitQdrant(ok)
  \/ \E ok \in BOOLEAN : ServerInitAIModel(ok)
  \/ \E p \in Invocations : ServerStartProcessor(p)
  \/ \E p \in Invocations : TimerFire(p)
  \/ \E p \in Invocations : Find(p, TRUE)
  \/ \E p \in Invocations : MarkProcessing(p, TRUE)
  \/ \E p \in Invocations, ok \in BOOLEAN : GenerateEmbedding(p, ok)
  \/ \E p \in Invocations, h \in BOOLEAN, ok \in BOOLEAN : QdrantUpsert(p, h, ok)
  \/ \E p \in Invocations : MarkCompleted(p, TRUE)
  \/ \E p \in Invocations : CatchUpdate(p, TRUE)
  \/ \E p \in Invocations : Loop(p)
  \/ \E p \in Invocations : CountRemaining(p, TRUE)
  \/ \E p \in Invocations : Release(p)
  \/ \E e \in BOOLEAN, u \in BOOLEAN : UploadStart("multiple", "u1", "a", TRUE, e, u)
  \/ \E p \in Invocations : UploadCreate(TRUE, p)
  \/ \E ok \in BOOLEAN, p \in Invocations : UploadSetPayload(ok, p)
  \/ Crash

SpecCrash == Init /\ [][NextCrash]_vars

\* Searches of user u1 while the server runs: it starts, an image is
\* uploaded by either operation, passes of the processor run, and a search
\* with a query is taken through its awaits between their steps.
NextLive ==
  \/ \E ok \in BOOLEAN : ServerInitQdrant(ok)
  \/ \E ok \in BOOLEAN : ServerInitAIModel(ok)
  \/ \E p \in Invocations : ServerStartProcessor(p)
  \/ \E p \in Invocations : TimerFire(p)
  \/ \E p \in Invocations, ok \in BOOLEAN : Find(p, ok)
  \/ \E p \in Invocations, ok \in BOOLEAN : MarkProcessing(p, ok)
  \/ \E p \in Invocations, ok \in BOOLEAN : GenerateEmbedding(p, ok)
  \/ \E p \in Invocations, h \in BOOLEAN, ok \in BOOLEAN : QdrantUpsert(p, h, ok)
  \/ \E p \in Invocations, ok \in BOOLEAN : MarkCompleted(p, ok)
  \/ \E p \in Invocations, ok \in BOOLEAN : CatchUpdate(p, ok)
  \/ \E p \in Invocations : Loop(p)
  \/ \E p \in Invocations, ok \in BOOLEAN : CountRemaining(p, ok)
  \/ \E p \in Invocations : Release(p)
  \/ \E kind \in {"single", "multiple"}, h \in BOOLEAN, e \in BOOLEAN, u \in BOOLEAN :
          nextId <= FullImages /\ UploadStart(kind, "u1", "a", h, e, u)
  \/ \E ok \in BOOLEAN, p \in Invocations : UploadCreate(ok, p)
  \/ \E ok \in BOOLEAN, p \in Invocations : UploadSetPayload(ok, p)
  \/ SearchStart("u1", "sunset", 1, Null)
  \/ \E ok \in BOOLEAN : SearchCount(ok)
  \/ \E ok \in BOOLEAN : SearchHealth(ok)
  \/ \E outcome \in Embeddings : SearchEmbed(outcome)
  \/ \E ok \in BOOLEAN : SearchGetCollection(ok)
  \/ \E ok \in BOOLEAN, ranking \in Rankings : SearchQdrant(ok, ranking)
  \/ \E ok \in BOOLEAN : SearchFind(ok)
  \/ Respond

SpecLive == Init /\ [][NextLive]_vars

\* A healthy server with MaxRanked documents, more than the neighbours a
\* search of limit 1 asks for: each is of either user, and has no point, a
\* point whose imageId is still null, or a point with its imageId.
PointStates == {"none", "unlinked", "linked"}

InitRank ==
  /\ \E owner \in [1..MaxRanked -> Users] : \E point \in [1..MaxRanked -> PointStates] :
       /\ images = [ id \in 1..MaxRanked |->
                       UploadedImage("multiple", owner[id], "a", point[id] # "none") ]
       /\ points = [ id \in {i \in 1..MaxRanked : point[i] # "none"} |->
                       [ imageId |-> IF point[id] = "linked" THEN id ELSE NullId,
                         userId |-> owner[id] ] ]
  /\ nextId = MaxRanked + 1
  /\ isProcessing = FALSE
  /\ inv = [p \in Invocations |-> IdleInv]
  /\ isAIModelAvailable = TRUE
  /\ modelInitializationAttempts = 1
  /\ processingInterval = TRUE
  /\ activeIntervals = 1
  /\ qdrantClient = TRUE
  /\ isQdrantAvailable = TRUE
  /\ reconnectPending = FALSE
  /\ qdrantInits = 0
  /\ serverPc = "listening"
  /\ req = IdleReq

\* searchImages asked of collections larger than the oversampled limit.
SpecRank == InitRank /\ [][NextSearch]_vars

\* A step of a pass that has entered.  Each one waits for a call to settle;
\* the event loop then resumes the pass.
PassStep ==
  \E p \in Invocations :
    \/ \E ok \in BOOLEAN : Find(p, ok)
    \/ \E ok \in BOOLEAN : MarkProcessing(p, ok)
    \/ \E ok \in BOOLEAN : GenerateEmbedding(p, ok)
    \/ \E h \in BOOLEAN, ok \in BOOLEAN : QdrantUpsert(p, h, ok)
    \/ \E ok \in BOOLEAN : MarkCompleted(p, ok)
    \/ \E ok \in BOOLEAN : CatchUpdate(p, ok)
    \/ Loop(p)
    \/ \E ok \in BOOLEAN : CountRemaining(p, ok)

\* The same, every call a pass awaits settling in the end.
SpecScheduleFair == SpecSchedule /\ WF_vars(PassStep)

\* The documents whose image the model may fail to embed; the others are
\* embedded whenever they are tried.
Flaky == {1}

\* A pass of the processor while MongoDB and Qdrant answer: every update is
\* written, every vector is stored, and generateEmbedding may throw for the
\* documents of Flaky.
DrainPass ==
  \E p \in Invocations :
    \/ Find(p, TRUE)
    \/ MarkProcessing(p, TRUE)
    \/ \E ok \in (IF inv[p].pc = "embed" /\ Cur(p).id \in Flaky THEN BOOLEAN ELSE {TRUE}) :
         GenerateEmbedding(p, ok)
    \/ QdrantUpsert(p, TRUE, TRUE)
    \/ MarkCompleted(p, TRUE)
    \/ CatchUpdate(p, TRUE)
    \/ Loop(p)
    \/ CountRemaining(p, TRUE)

DrainTimer == \E p \in Invocations : TimerFire(p)

DrainRelease == \E p \in Invocations : Release(p)

DrainClock == \E d \in TickSteps : Tick(d)

\* An upload of several files, whose embedding at upload may fail.
DrainUpload ==
  \/ \E e \in BOOLEAN, u \in BOOLEAN :
       nextId <= FullImages /\ UploadStart("multiple", "u1", "a", TRUE, e, u)
  \/ \E p \in Invocations : UploadCreate(TRUE, p)
  \/ \E ok \in BOOLEAN, p \in Invocations : UploadSetPayload(ok, p)

\* A listening server whose model is loaded and whose processor has been
\* started; the collection is empty, or holds MaxBacklog pending documents.
InitDrain ==
  /\ \E n \in {0, MaxBacklog} :
       /\ images = [ id \in 1..n |-> NewImage("u1", "a") ]
       /\ nextId = n + 1
  /\ points = <<>>
  /\ isProcessing = FALSE
  /\ processingInterval = TRUE
  /\ activeIntervals = 1
  /\ inv = [p \in Invocations |-> IdleInv]
  /\ isAIModelAvailable = TRUE
  /\ modelInitializationAttempts = 1
  /\ qdrantClient = TRUE
  /\ isQdrantAvailable = TRUE
  /\ reconnectPending = FALSE
  /\ qdrantInits = 0
  /\ serverPc = "listening"
  /\ req = IdleReq

NextDrain ==
  \/ DrainTimer
  \/ DrainPass
  \/ DrainRelease
  \/ DrainClock
  \/ DrainUpload

\* setInterval keeps firing, every awaited call settles, a skipped call
\* returns, and time passes.
SpecDrain ==
  /\ InitDrain /\ [][NextDrain]_vars
  /\ WF_vars(DrainTimer) /\ WF_vars(DrainPass)
  /\ WF_vars(DrainRelease) /\ WF_vars(DrainClock)


\* The start of the server and the retries of the model's load.
RetryBoot ==
  \/ ServerInitQdrant(TRUE)
  \/ \E ok \in BOOLEAN : ServerInitAIModel(ok)
  \/ \E p \in Invocations : ServerStartProcessor(p)
  \/ \E ok \in BOOLEAN : ModelRetryFire(ok)

NextRetry ==
  \/ RetryBoot
  \/ DrainTimer
  \/ DrainPass
  \/ DrainRelease
  \/ DrainClock
  \/ DrainUpload

\* The server from its start, the model loading at once, at a retry or
\* never, over a MongoDB and a Qdrant that answer: startServer runs on, the
\* setTimeout of initAIModel and the interval fire, every awaited call
\* settles and time passes.  Nothing makes a client upload again.
SpecRetry ==
  /\ Init /\ [][NextRetry]_vars
  /\ WF_vars(RetryBoot) /\ WF_vars(DrainTimer) /\ WF_vars(DrainPass)
  /\ WF_vars(DrainRelease) /\ WF_vars(DrainClock)

\* The stats asked while no pass runs, of a collection the processor works
\* on: documents are pending, completed, failed, or failed for the last time.
QuiescentStats ==
  /\ \A p \in Invocations : ~Running(p)
  /\ \E owner \in Users \cup {Null} : StatsRequest(owner)

NextStatsLive ==
  \/ NextDrain
  \/ QuiescentStats
  \/ Respond

SpecStatsLive == InitDrain /\ [][NextStatsLive]_vars

\* ------------------------------------------------------------ claims

\* What Image.find would select in the current state.
Selected(id) ==
  \E k \in 1..Len(ImagesToProcess) : ImagesToProcess[k].id = id

\* The handling of document Cur(p) by call p is over.
Handled(p) == inv[p].pc = "loop"

\* C1: for every image document, in every reachable state (after any
\* sequence of uploads, passes, edits and deletes), isEmbedded is true if and
\* only if embeddingStatus is "completed".
C1_EmbeddedIffCompleted ==
  \A id \in DOMAIN images :
    images[id].isEmbedded <=> images[id].embeddingStatus = "completed"

\* A pass has just completed a document that had failed before.
C1_Witness ==
  \E p \in Invocations :
    /\ Handled(p) /\ inv[p].error = Null
    /\ Cur(p).id \in DOMAIN images
    /\ images[Cur(p).id].isEmbedded
    /\ images[Cur(p).id].embeddingStatus = "completed"
    /\ images[Cur(p).id].embeddingAttempts >= 2

\* C2: a pass marks a document completed only if, in that same attempt, the
\* embed call and the Qdrant upsert both succeeded; hence the document it
\* has just marked completed has a point under its qdrantId.
C2_CompletedOnlyAfterUpsert ==
  \A p \in Invocations :
    Handled(p) /\ inv[p].error = Null =>
      /\ inv[p].embedded = "ok" /\ inv[p].upserted = "ok"
      /\ Cur(p).id \in DOMAIN images => Cur(p).id \in DOMAIN points

\* C3: single flight: at most one call of processPendingEmbeddings is past
\* the guard at any time, whatever triggered the calls; a call made while
\* another runs returns at once.
C3_SingleFlight ==
  /\ Cardinality({p \in Invocations : Running(p)}) <= 1
  /\ \A p \in Invocations : inv[p].pc = "skipRunning" => inv[p].batch = <<>>
  /\ (\E p \in Invocations : Running(p)) => isProcessing

\* A second call was made while a pass handles a document, and returned.
C3_Witness ==
  \E p, q \in Invocations :
    /\ inv[p].pc = "embed"
    /\ inv[q].pc = "skipRunning"

\* C4: a document that is failed with embeddingAttempts >= MAX_EMBEDDING_ATTEMPTS
\* is not in the batch any later Image.find selects, however old its last
\* attempt is.
C4_TerminalNeverSelected ==
  [][ \A p \in Invocations : \A id \in DOMAIN images :
        ( /\ inv[p].pc = "find"
          /\ images[id].embeddingStatus = "failed"
          /\ images[id].embeddingAttempts >= MAX_EMBEDDING_ATTEMPTS )
        => \A k \in 1..Len(inv'[p].batch) : inv'[p].batch[k].id # id ]_vars

\* A pass is about to select while a document has failed five times and its
\* last attempt is older than the retry delay.
C4_Witness ==
  \E p \in Invocations : \E id \in DOMAIN images :
    /\ inv[p].pc = "find"
    /\ images[id].embeddingStatus = "failed"
    /\ images[id].embeddingAttempts = MAX_EMBEDDING_ATTEMPTS
    /\ images[id].lastEmbeddingAttempt = <<Oldest>>

\* A failed document that may still be retried.
Retryable(id) ==
  /\ images[id].embeddingStatus = "failed"
  /\ images[id].embeddingAttempts < MAX_EMBEDDING_ATTEMPTS

C6_AttemptsMonotone ==
  [][ \A id \in DOMAIN images \cap DOMAIN images' :
        images'[id].embeddingAttempts >= images[id].embeddingAttempts ]_vars

\* A document completed on its second attempt or later keeps its count.
C6_Witness ==
  \E id \in DOMAIN images :
    /\ images[id].embeddingStatus = "completed"
    /\ images[id].embeddingAttempts >= 2
    /\ images[id].lastEmbeddingAttempt # NoDate

\* What C7 says of the document call p has handled.
CompletedAsClaimed(p) ==
  LET r == images[Cur(p).id] IN
    /\ r.embeddingStatus = "completed"
    /\ r.isEmbedded
    /\ r.embeddingError = Null
    /\ r.embeddingAttempts = Cur(p).embeddingAttempts + 1

EmbedOrUpsertThrew(p) ==
  /\ inv[p].pc = "catch"
  /\ inv[p].embedded = "threw" \/ inv[p].upserted = "threw"

\* What C8 says of the document call p was handling, after the step.
FailedAsClaimed(p) ==
  LET r == images'[Cur(p).id] IN
    /\ r.embeddingStatus = "failed"
    /\ r.embeddingError = inv[p].error
    /\ ~r.isEmbedded
    /\ r.embeddingAttempts = Cur(p).embeddingAttempts + 1

C9_NoFailFast ==
  [][ \A p \in Invocations :
        Running(p) /\ inv'[p].pc = "idle"
        => inv[p].i >= Len(inv[p].batch) ]_vars

C11_NotReadySkips ==
  [][ \A p \in Invocations :
        /\ ( /\ inv[p].pc = "idle" /\ inv'[p].pc # "idle"
             /\ ~IsAIModelReady )
           => inv'[p].pc \in {"skipRunning", "skipNotReady"}
        /\ ( inv[p].pc = "idle" /\ inv'[p].pc = "skipNotReady" )
           => /\ isProcessing' = isProcessing
              /\ inv'[p].batch = <<>>
              /\ \A id \in DOMAIN images :
                   id \in DOMAIN images' /\ images'[id] = images[id] ]_vars

\* The pass triggered by a second upload was skipped for want of the model,
\* with a pending document already in the collection.
C11_Witness ==
  /\ ~IsAIModelReady /\ ~isProcessing
  /\ inv[2].pc = "skipNotReady"
  /\ Cardinality(DOMAIN images) = 2
  /\ \A id \in DOMAIN images : images[id].embeddingStatus = "pending"

\* C12: startEmbeddingProcessor makes one call of processPendingEmbeddings
\* at once and sets one timer; called while a timer is held it does nothing;
\* after stopEmbeddingProcessor no timer is left.  So at most one timer is
\* active at any time, it is the one held in processingInterval, and while
\* none is active a call is made only by a start or at the end of an upload.
C12_OneScheduledLoop ==
  [][ /\ activeIntervals' <= 1
      /\ processingInterval' <=> activeIntervals' = 1
      /\ (~processingInterval /\ processingInterval')
         => \E p \in Invocations : inv[p].pc = "idle" /\ inv'[p].pc # "idle"
      /\ ( /\ activeIntervals = 0
           /\ \E p \in Invocations : inv[p].pc = "idle" /\ inv'[p].pc # "idle" )
         => \/ processingInterval'
            \/ req.pc # "idle" /\ req'.pc = "idle" ]_vars

\* The processor was started by a call of startEmbeddingProcessor (the
\* server does not start it when the model failed to load): one timer is
\* active and the call made at once was skipped for want of the model.
C12_Witness ==
  /\ serverPc = "listening" /\ ~IsAIModelReady
  /\ processingInterval /\ activeIntervals = 1
  /\ inv[1].pc = "skipNotReady"

DeleteResponded == req.pc = "responded" /\ req.kind = "delete"

\* C14: when the owner deletes a document and qdrant.delete throws, or is
\* not tried because Qdrant is flagged disconnected, the request is not
\* failed for it: the record-store calls succeeding, the document is deleted
\* and the answer is 200; the only failure answered is that of the record
\* store.
C14_VectorFailureNotFatal ==
  (DeleteResponded /\ req.vector \in {"failed", "skipped"})
  => \/ req.status = 200 /\ req.error = Null /\ req.id \notin DOMAIN images
     \/ req.status = 500 /\ req.error = MongoError

\* qdrant.delete threw, the point is still in Qdrant, and the delete was
\* answered 200 with the document gone.
C14_Witness ==
  /\ DeleteResponded /\ req.vector = "failed"
  /\ req.status = 200
  /\ req.id \notin DOMAIN images
  /\ req.id \in DOMAIN points

\* C15: a delete of a document with isEmbedded = true that is answered 200
\* and whose qdrant.delete succeeded leaves neither the document nor a
\* point under its qdrantId.
C15_DeleteRemovesBoth ==
  ( /\ DeleteResponded /\ req.isEmbedded
    /\ req.status = 200 /\ req.vector = "deleted" )
  => /\ req.id \notin DOMAIN images
     /\ req.id \notin DOMAIN points

\* A document completed by a pass, whose point was stored, was deleted.
C15_Witness ==
  /\ DeleteResponded /\ req.isEmbedded
  /\ req.status = 200 /\ req.vector = "deleted"
  /\ req.id \notin DOMAIN images
  /\ req.id \notin DOMAIN points
  /\ \A p \in Invocations : inv[p].pc = "idle"

\* The stats have been answered.
StatsResponded == req.pc = "responded" /\ req.kind = "stats"

\* The documents the stats are about.
Owned(owner) ==
  {id \in DOMAIN images : owner # Null => images[id].user = owner}

\* p is x / y rounded to the nearest integer, a half going up.
IsRounded(p, x, y) == 2 * y * p <= 2 * x + y /\ 2 * x + y < 2 * y * (p + 1)

\* C16: the stats answered count the documents of the owner given (all
\* documents when none is given); percentage is embedded / total * 100
\* rounded to the nearest integer when total > 0, and 0 when total = 0.
C16_PercentageRounded ==
  StatsResponded =>
    LET st == req.stats IN
      /\ st.total = Cardinality(Owned(req.user))
      /\ st.embedded = Cardinality({id \in Owned(req.user) : images[id].isEmbedded})
      /\ st.total = 0 => st.percentage = 0
      /\ st.total > 0 => IsRounded(st.percentage, 100 * st.embedded, st.total)

\* A search has been answered.
SearchResponded == req.pc = "responded" /\ req.kind = "search"

\* results are the newest documents of a set, newest first, at most limit
\* of them.
NewestOf(results, docs, limit) ==
  /\ \A i \in DOMAIN results : results[i] \in docs
  /\ \A i, j \in DOMAIN results : i < j => results[i] > results[j]
  /\ Len(results) = IF Cardinality(docs) < limit THEN Cardinality(docs) ELSE limit
  /\ \A id \in docs : \A i \in DOMAIN results : id > results[i] =>
       \E j \in DOMAIN results : results[j] = id

\* C17: a search whose query is absent, empty or blank calls neither the
\* model nor Qdrant, whatever their health, and once Image.find has answered
\* it returns, with searchType "all", the caller's documents that pass the
\* filters, newest first, at most limit of them.
C17_BlankQueryIsMetadataOnly ==
  (req.kind = "search" /\ req.query \in {Null, "", " "}) =>
    /\ req.calls = {}
    /\ req.searchType \in {"none", "all"}
    /\ (SearchResponded /\ req.error # MongoError) =>
         /\ req.status = 200
         /\ req.searchType = "all"
         /\ NewestOf(req.results, Matching(req.user, req.name), req.limit)

\* A blank query is answered the newest of two matching documents, Qdrant
\* being down and the model not loaded.
C17_Witness ==
  /\ SearchResponded
  /\ req.query = " "
  /\ req.status = 200
  /\ Cardinality(Matching(req.user, req.name)) > req.limit
  /\ Len(req.results) = req.limit
  /\ ~isQdrantAvailable
  /\ ~IsAIModelReady

\* A search with a real query whose Image.countDocuments has answered.
AISearchAsked ==
  /\ SearchResponded
  /\ req.query = "sunset"
  /\ req.error # MongoError

\* C18: a search with a query, Qdrant being unhealthy or the model not
\* ready, is answered 503 with searchType "unavailable" and no image; it has
\* called neither generateTextEmbedding nor qdrant.search, and is never
\* answered the metadata search.
C18_UnavailableNoFallback ==
  (req.kind = "search" /\ req.query = "sunset"
     /\ (~isQdrantAvailable \/ ~IsAIModelReady)) =>
    /\ req.calls \cap {"embed", "getCollection", "search"} = {}
    /\ req.searchType # "all"
    /\ req.results = <<>>
    /\ AISearchAsked => (req.status = 503 /\ req.searchType = "unavailable")

\* Qdrant is healthy and the model is not loaded; the caller has documents
\* a metadata search would return.
C18_Witness ==
  /\ AISearchAsked
  /\ isQdrantAvailable
  /\ ~IsAIModelReady
  /\ "health" \in req.calls
  /\ Matching(req.user, req.name) # {}
  /\ req.status = 503

Transient == {EmbedError, QdrantError, MongoError}

\* C20: a search whose query embedding is empty or of the wrong length is
\* answered a failure with searchType "ai" and no image, and, no call having
\* failed, the failure is a bad request (4xx), not a server error (5xx).
C20_MalformedEmbeddingIsBadRequest ==
  (SearchResponded /\ req.embedding \in {"empty", "wrongLength"}) =>
    /\ req.searchType = "ai"
    /\ req.results = <<>>
    /\ req.status >= 400
    /\ req.error \notin Transient => req.status \in 400..499

\* A search has been answered the images of the AI search.
AISearchSucceeded ==
  SearchResponded /\ req.status = 200 /\ req.searchType = "ai"

\* The documents of the caller that pass the filters and whose id is among
\* the hits of qdrant.search.
Ranked == {id \in Matching(req.user, req.name) :
             \E i \in DOMAIN req.hits : req.hits[i].imageId = id}

\* The rank Qdrant gave a document of Ranked.
RankOf(id) == CHOOSE i \in DOMAIN req.hits : req.hits[i].imageId = id

\* C21: a successful AI search has asked Qdrant for limit x 3 neighbours, and
\* answers, with searchType "ai", the documents among them that pass the
\* filters of the store, in descending order of their score, at most limit
\* of them.
C21_RankedByScore ==
  AISearchSucceeded =>
    /\ req.requested = req.limit * 3
    /\ Len(req.hits) = IF Cardinality(DOMAIN points) < req.limit * 3
                         THEN Cardinality(DOMAIN points) ELSE req.limit * 3
    /\ \A i \in DOMAIN req.results : req.results[i] \in Ranked
    /\ \A i, j \in DOMAIN req.results :
         i < j => req.hits[RankOf(req.results[i])].score
                    > req.hits[RankOf(req.results[j])].score
    /\ Len(req.results) = IF Cardinality(Ranked) < req.limit
                            THEN Cardinality(Ranked) ELSE req.limit
    /\ \A id \in Ranked : \A i \in DOMAIN req.results :
         req.hits[RankOf(id)].score > req.hits[RankOf(req.results[i])].score =>
           \E j \in DOMAIN req.results : req.results[j] = id

\* With limit 1 and four points, three hits come back; two documents of the
\* caller are among them and the one answered is the better ranked, not the
\* first of Image.find.
C21_Witness ==
  /\ AISearchSucceeded
  /\ req.limit = 1
  /\ Cardinality(DOMAIN points) > 3
  /\ Len(req.hits) = 3
  /\ Cardinality(Ranked) >= 2
  /\ Len(req.results) = 1
  /\ \E id \in Ranked : id < req.results[1]

\* Qdrant returned a score for a document.
Scored(id) == \E i \in DOMAIN req.hits : req.hits[i].imageId = id

\* C22: every document a successful AI search fetches and every document it
\* answers has a score among the hits of qdrant.search; a document of the
\* caller without one is neither fetched nor answered, so none is ranked
\* with the default score.
C22_UnscoredExcluded ==
  AISearchSucceeded =>
    /\ \A i \in DOMAIN req.fetched : Scored(req.fetched[i])
    /\ \A i \in DOMAIN req.results : Scored(req.results[i])
    /\ \A id \in Matching(req.user, req.name) :
         ~Scored(id) => \A i \in DOMAIN req.results : req.results[i] # id

\* A document of the caller has its point in Qdrant, but the point is not
\* among the three hits: the search answers no image though limit allows one.
C22_Witness ==
  /\ AISearchSucceeded
  /\ req.limit = 1
  /\ Len(req.hits) = 3
  /\ req.results = <<>>
  /\ \E id \in Matching(req.user, req.name) :
       /\ id \in DOMAIN points
       /\ points[id].imageId = id
       /\ ~Scored(id)

\* The documents of the caller whose embedding is not completed.
NotCompleted ==
  {id \in DOMAIN images :
     images[id].user = req.user /\ images[id].embeddingStatus # "completed"}

\* C23: a successful AI search carries a warning exactly when the caller has
\* a document whose embeddingStatus is not completed, and the count it
\* reports is the number of these documents.
C23_WarningCountsNotCompleted ==
  AISearchSucceeded =>
    /\ req.warning <=> NotCompleted # {}
    /\ req.unembeddedCount = Cardinality(NotCompleted)

\* The caller has one document, failed or in processing; the other user has
\* one that is not completed either and is not counted.
C23_Witness ==
  /\ AISearchSucceeded
  /\ req.warning
  /\ req.unembeddedCount = 1
  /\ \E id \in NotCompleted : images[id].embeddingStatus \in {"processing", "failed"}
  /\ \E id \in DOMAIN images :
       images[id].user # req.user /\ images[id].embeddingStatus # "completed"

\* The two upload operations.
UploadKinds == {"single", "multiple"}

\* C24: an upload is never held back by the embedding: whatever the state
\* of the model and of Qdrant and whatever the outcome of the upload-time
\* embedding, every upload request goes on to Image.create, and when
\* Image.create succeeds the document exists, pending or completed.
C24_UploadNeverBlocked ==
  [][ /\ (req.pc = "idle" /\ req'.kind \in UploadKinds) => req'.pc = "create"
      /\ (\E p \in Invocations : UploadCreate(TRUE, p)) =>
           /\ req.id \in DOMAIN images'
           /\ images'[req.id].embeddingStatus \in {"pending", "completed"} ]_vars

\* C25: what Image.create stores follows the upload-time embedding, for
\* both upload operations: completed with isEmbedded = true when the
\* embedding and the upsert succeeded, pending with isEmbedded = false
\* otherwise.
C25_FastPathCompletes ==
  [][ (req.pc = "create" /\ req.id \notin DOMAIN images /\ req.id \in DOMAIN images') =>
        IF req.vector = "upserted"
          THEN /\ images'[req.id].embeddingStatus = "completed"
               /\ images'[req.id].isEmbedded
          ELSE /\ images'[req.id].embeddingStatus = "pending"
               /\ ~images'[req.id].isEmbedded ]_vars

\* C26: the images of a successful AI search are completed documents when
\* Image.find reads them, whatever uploads and passes of the processor ran
\* before and between the awaits of the search.
C26_OnlyCompletedReturned ==
  [][ (req.pc = "find" /\ req'.pc = "responded" /\ req'.status = 200) =>
        \A i \in DOMAIN req'.results :
          images[req'.results[i]].embeddingStatus = "completed" ]_vars

\* The documents whose embeddingStatus is processing.
InProcessing == {id \in DOMAIN images : images[id].embeddingStatus = "processing"}

\* Call p is inside processImageEmbedding for the document Cur(p).
OnRecord(p) ==
  inv[p].pc \in {"markProcessing", "embed", "upsert", "markCompleted", "catch"}

\* No two calls are inside processImageEmbedding at once.
OneRecordAtATime ==
  \A p, q \in Invocations : (p # q /\ OnRecord(p)) => ~OnRecord(q)

\* C27: documents are processed one after the other: at most one document
\* is in processing, and no two calls handle a document at the same time.
C27_AtMostOneProcessing ==
  /\ Cardinality(InProcessing) <= 1
  /\ OneRecordAtATime

\* The changes of embeddingStatus the state machine allows.
Allowed ==
  { <<"pending", "processing">>, <<"failed", "processing">>,
    <<"processing", "completed">>, <<"processing", "failed">> }

\* The change of embeddingStatus of a document in a step, if any.
StatusChanges ==
  { <<images[id].embeddingStatus, images'[id].embeddingStatus>> :
      id \in {i \in DOMAIN images \cap DOMAIN images' :
                images[i].embeddingStatus # images'[i].embeddingStatus} }

\* C28: every change of a document's embeddingStatus is pending ->
\* processing, failed -> processing, processing -> completed or
\* processing -> failed.
C28_OnlyAllowedTransitions ==
  [][StatusChanges \subseteq Allowed]_vars

\* No call is inside processImageEmbedding for a document.
Abandoned(id) ==
  \A p \in Invocations : OnRecord(p) => Cur(p).id # id

\* C29: a document in processing is not selected by the query of a pass;
\* one that no call is handling, left so by a crash, is in processing still
\* after every step, through the passes that follow.
C29_ProcessingNeverRequeued ==
  [][ \A id \in InProcessing :
        /\ ~Selected(id)
        /\ Abandoned(id) =>
             (id \in DOMAIN images' /\ images'[id].embeddingStatus = "processing") ]_vars

\* After a crash left document 1 in processing, a pass has found document 2
\* alone and completed it.
C29_Witness ==
  /\ 1 \in InProcessing
  /\ Abandoned(1)
  /\ \E p \in Invocations :
       /\ inv[p].pc = "loop"
       /\ Len(inv[p].batch) = 1
       /\ Cur(p).id = 2
       /\ images[2].embeddingStatus = "completed"

\* The fields of a document the pipeline and the upload write, and its
\* owner.
PipelineFields(r) ==
  << r.user, r.isEmbedded, r.embeddingStatus, r.embeddingError,
     r.embeddingAttempts, r.lastEmbeddingAttempt >>

\* The step is the image.save() of an edit of document id.
EditStep(id) == req.pc = "save" /\ req.id = id /\ req'.pc = "responded"

\* C30: an edit and the updates of the pipeline on the same document lose
\* nothing of each other, however they interleave: the save of an edit
\* writes the title and leaves the owner and the embedding fields as they
\* are in the store, and every other step leaves the title as it is.
C30_EditAndPipelineDisjoint ==
  [][ \A id \in DOMAIN images \cap DOMAIN images' :
        IF EditStep(id)
          THEN /\ PipelineFields(images'[id]) = PipelineFields(images[id])
               /\ req'.status = 200 => images'[id].title = req.title
          ELSE images'[id].title = images[id].title ]_vars

\* An edit loaded the document before its embedding was completed and has
\* saved its title; the document is completed and has the new title, and a
\* call of the processor is at the end of its handling.
C30_Witness ==
  /\ req.pc = "responded"
  /\ req.kind = "edit"
  /\ req.status = 200
  /\ ~req.isEmbedded
  /\ Exists(req.id)
  /\ images[req.id].title = req.title
  /\ images[req.id].embeddingStatus = "completed"
  /\ images[req.id].isEmbedded
  /\ \E p \in Invocations : inv[p].pc = "loop" /\ Cur(p).id = req.id

\* The handling of document id is over for good.
Drained(id) ==
  /\ Exists(id)
  /\ \/ images[id].embeddingStatus = "completed"
     \/ /\ images[id].embeddingStatus = "failed"
        /\ images[id].embeddingAttempts >= MAX_EMBEDDING_ATTEMPTS

\* C31: with the model ready, Qdrant and MongoDB working, no crash and the
\* periodic loop started, every document created pending is in the end
\* completed, or failed with embeddingAttempts >= MAX_EMBEDDING_ATTEMPTS,
\* also when more than BATCH_LIMIT documents are eligible and when the passes
\* triggered by uploads are skipped.
C31_PendingDrains ==
  \A id \in 1..MaxBacklog :
    (Exists(id) /\ images[id].embeddingStatus = "pending") ~> Drained(id)

\* Of more than a batch of documents that were pending, all are drained:
\* the first has failed for the last time and the last one is completed.
C31_Witness ==
  /\ Cardinality(DOMAIN images) > BATCH_LIMIT
  /\ \A id \in DOMAIN images : Drained(id)
  /\ images[1].embeddingStatus = "failed"
  /\ images[MaxBacklog].embeddingStatus = "completed"

\* C32: if the model fails to load when the server starts and is loaded
\* later by a retry of initAIModel, every document left pending is in the
\* end taken by the processor, without a further upload.
C32_PendingProcessedAfterRetry ==
  \A id \in ImageIds :
    (isAIModelAvailable /\ Exists(id) /\ images[id].embeddingStatus = "pending")
      ~> (Exists(id) /\ images[id].embeddingStatus # "pending")

\* The same of a server that did start its processor.
C32_PendingProcessedWhenStarted ==
  \A id \in ImageIds :
    (processingInterval /\ Exists(id) /\ images[id].embeddingStatus = "pending")
      ~> (Exists(id) /\ images[id].embeddingStatus # "pending")

\* No call of processPendingEmbeddings is between its entry and its end.
NoPassRunning == \A p \in Invocations : ~Running(p)

\* C33: after any pass has ended (on an empty batch, after the whole batch,
\* or by an exception of MongoDB) isProcessing is false: the flag is true
\* only while a pass runs, so no later trigger is skipped because of a
\* flag that nobody will reset.
C33_FlagReleased == NoPassRunning => ~isProcessing

\* A pass was aborted by an exception of MongoDB (it left its document in
\* processing) and the flag is released.
C33_Witness ==
  /\ NoPassRunning /\ ~isProcessing
  /\ \E id \in DOMAIN images : images[id].embeddingStatus = "processing"

\* C34: without a crash, after any interleaving of uploads, passes and
\* deletes, every point of the Qdrant collection is stored under the
\* qdrantId of a document that exists.
C34_NoOrphanPoints ==
  \A qid \in DOMAIN points :
    \/ Exists(qid)
    \/ req.pc = "create" /\ req.id = qid    \* its upload is about to create it

\* C35: for every document with isEmbedded true, the point stored under its
\* qdrantId carries the document's _id as payload imageId, so that a hit of
\* a search is mapped back to the document; so it is after an upload that
\* embedded at once, whose point is first written with imageId null.
C35_EmbeddedPointLinked ==
  \A id \in DOMAIN images :
    images[id].isEmbedded =>
      \/ id \in DOMAIN points /\ points[id].imageId = id
      \/ req.pc = "setPayload" /\ req.id = id    \* its upload is about to link it

\* C36: for every document, in every reachable state, embeddingAttempts <=
\* MAX_EMBEDDING_ATTEMPTS: the processor never tries a document more than
\* MAX_EMBEDDING_ATTEMPTS times.
C36_AttemptsBounded ==
  \A id \in DOMAIN images :
    images[id].embeddingAttempts <= MAX_EMBEDDING_ATTEMPTS

\* A document has failed MAX_EMBEDDING_ATTEMPTS times, its last failure is
\* older than RETRY_DELAY, and a pass that runs does not take it.
C36_Witness ==
  \E id \in DOMAIN images :
    /\ images[id].embeddingStatus = "failed"
    /\ images[id].embeddingAttempts = MAX_EMBEDDING_ATTEMPTS
    /\ images[id].lastEmbeddingAttempt = <<Oldest>>
    /\ \E p \in Invocations : inv[p].pc = "find"
    /\ ~Selected(id)

\* C37: the buckets of the stats partition the documents they are about:
\* when no pass runs, embedded + pending + processing + failed = total, every
\* document counted in exactly one bucket, also the documents that failed for
\* the last time; and so 0 <= percentage <= 100.
C37_BucketsPartition ==
  StatsResponded =>
    /\ req.stats.embedded + req.stats.pending + req.stats.processing
         + req.stats.failed = req.stats.total
    /\ req.stats.percentage \in 0..100

\* C38: in every state after the first call of initQdrant has finished, if
\* Qdrant is flagged unavailable then the reconnect timeout is armed or a
\* call of initQdrant is in progress: the reconnection never stops, so the
\* flag becomes true once Qdrant answers again.
C38_ReconnectNeverStops ==
  (serverPc # "initQdrant" /\ ~isQdrantAvailable)
    => (reconnectPending \/ qdrantInits > 0)

\* A connection was lost while the server listens; the timeout has fired and
\* its call of initQdrant is the only thing that can restore the flag.
C38_Witness ==
  /\ serverPc = "listening"
  /\ ~isQdrantAvailable
  /\ ~reconnectPending
  /\ qdrantInits > 0
  /\ DOMAIN points # {}

\* C39: every document a search answers, with searchType "all" or "ai", is
\* owned by the caller and passes the filters of the request, though
\* qdrant.search is not restricted to the caller's points.
C39_OwnResultsOnly ==
  (SearchResponded /\ req.status = 200 /\ req.searchType \in {"all", "ai"}) =>
    \A i \in DOMAIN req.results :
      /\ Exists(req.results[i])
      /\ images[req.results[i]].user = req.user
      /\ req.name # Null => images[req.results[i]].title = req.name

\* An AI search with a name filter answered a document of the caller, while
\* the hits of qdrant.search held a point of the other user's document.
C39_Witness ==
  /\ AISearchSucceeded
  /\ req.name # Null
  /\ Len(req.results) > 0
  /\ \E i \in DOMAIN req.hits :
       /\ req.hits[i].imageId # NullId
       /\ Exists(req.hits[i].imageId)
       /\ images[req.hits[i].imageId].user # req.user

\* The documents of the caller that pass the filters, are completed, and
\* whose point in Qdrant carries their _id.
Searchable ==
  {id \in Matching(req.user, req.name) :
     /\ images[id].isEmbedded
     /\ id \in DOMAIN points /\ points[id].imageId = id}

\* C40: a successful AI search answers the caller's best matches: a completed
\* document of the caller that passes the filters is absent from the answer
\* only if the answer holds limit documents whose scores are at least as
\* high, however many points other users have in Qdrant.  Stated of the
\* documents whose point is stored with their _id.
C40_CallerBestMatches ==
  AISearchSucceeded =>
    \A id \in Searchable :
      (\A i \in DOMAIN req.results : req.results[i] # id) =>
        /\ Len(req.results) = req.limit
        /\ Scored(id) =>     \* a point that is no hit scores below every hit
             \A i \in DOMAIN req.results :
               ScoreOf(req.hits, req.results[i]) >= ScoreOf(req.hits, id)

====
